---- MODULE Spec2Model ----
(***************************************************************************)
(* Request processing pipeline of the NestJS API starter kit: the          *)
(* rate-limit guard (ThrottlerGuard), the validation pipe, the logging     *)
(* interceptor and the global exception filter.                            *)
(***************************************************************************)
EXTENDS Integers, Sequences, FiniteSets, TLC

(***************************************************************************)
(* JavaScript values.  A value is a record with a single field whose name  *)
(* is its type, so that values of different types are never equal.         *)
(***************************************************************************)
Undef == [undef |-> TRUE]
Str(s) == [str |-> s]
Num(n) == [num |-> n]
Arr(a) == [arr |-> a]
\* a string assembled from parts (a template literal, Error.stack)
Text(parts) == [text |-> parts]

IsUndef(x) == "undef" \in DOMAIN x
IsStr(x) == "str" \in DOMAIN x
IsArr(x) == "arr" \in DOMAIN x
IsText(x) == "text" \in DOMAIN x

\* JavaScript falsiness of the values above: undefined and '' are falsy,
\* and so is 0; every array (the empty one too), every non-empty string and
\* every other number is truthy.
Falsy(x) ==
    \/ IsUndef(x)
    \/ IsStr(x) /\ x.str = ""
    \/ IsText(x) /\ x.text = <<>>
    \/ "num" \in DOMAIN x /\ x.num = 0

OrElseLeft(a, b) == a
\* a || b
OrElse(a, b) == IF Falsy(a) THEN b ELSE a

\* whether the string `s` occurs in the value `x`
Mentions(x, s) ==
    \/ IsStr(x) /\ x.str = s
    \/ IsArr(x) /\ \E i \in DOMAIN x.arr : x.arr[i] = s
    \/ IsText(x) /\ \E i \in DOMAIN x.text : x.text[i] = s

(***************************************************************************)
(* HTTP status codes (HttpStatus of @nestjs/common).                       *)
(***************************************************************************)
OK == 200
BAD_REQUEST == 400
TOO_MANY_REQUESTS == 429
INTERNAL_SERVER_ERROR == 500

(***************************************************************************)
(* Objects and thrown values.                                              *)
(***************************************************************************)
\* an object literal: a function from its keys to JavaScript values
Obj(f) == [obj |-> f]
IsObj(x) == "obj" \in DOMAIN x
\* o.k : undefined when the object has no such key
Get(o, k) == IF k \in DOMAIN o.obj THEN o.obj[k] ELSE Undef

\* Error.stack as the engine builds it: "<name>: <message>\n    at ..."
MkStack(name, message) == Text(<<name, ": ", message, "\n    at <frames>">>)

\* A thrown value.  classes is the prototype chain the instanceof tests of
\* the filter read; status and response are those of an HttpException.
Thrown(classes, name, message, stack, status, response) ==
    [classes |-> classes, name |-> name, message |-> message, stack |-> stack,
     status |-> status, response |-> response]

InstanceOf(exception, class) == class \in exception.classes

\* the class name split at its capitals, as HttpException.initMessage does
ClassWords(name) ==
    CASE name = "HttpException" -> "Http Exception"
      [] name = "BadRequestException" -> "Bad Request Exception"
      [] name = "NotFoundException" -> "Not Found Exception"
      [] name = "ServiceUnavailableException" -> "Service Unavailable Exception"
      [] OTHER -> name

\* HttpException.initMessage: a string body is the message, an object body
\* gives its string message, anything else the words of the class name.
HttpMessage(response, name) ==
    IF IsStr(response) THEN response
    ELSE IF IsObj(response) /\ IsStr(Get(response, "message")) THEN Get(response, "message")
    ELSE Str(ClassWords(name))

\* new HttpException(response, status) and its subclasses
HttpException(name, response, status) ==
    Thrown({"Error", "HttpException"} \cup {name}, Str(name),
           HttpMessage(response, name),
           MkStack(name, HttpMessage(response, name).str), status, response)

BadRequestExceptionInternal(objectOrError) ==
    HttpException("BadRequestException",
        IF IsObj(objectOrError) THEN objectOrError
        ELSE Obj([k \in {"message", "error", "statusCode"} |->
                    CASE k = "message" -> objectOrError
                      [] k = "error" -> Str("Bad Request")
                      [] k = "statusCode" -> Num(BAD_REQUEST)]),
        INTERNAL_SERVER_ERROR)
\* HttpException.createBody as BadRequestException calls it: a string or an
\* array becomes {message, error: 'Bad Request', statusCode}, an object is the
\* body as it stands
BadRequestException(objectOrError) ==
    HttpException("BadRequestException",
        IF IsObj(objectOrError) THEN objectOrError
        ELSE Obj([k \in {"message", "error", "statusCode"} |->
                    CASE k = "message" -> objectOrError
                      [] k = "error" -> Str("Bad Request")
                      [] k = "statusCode" -> Num(BAD_REQUEST)]),
        BAD_REQUEST)

\* typeorm's QueryFailedError: an Error whose message is the driver's
QueryFailedError(detail, stack) ==
    Thrown({"Error", "TypeORMError", "QueryFailedError"}, Str("QueryFailedError"),
           Str(detail), stack, 0, Undef)

\* any other Error
PlainError(name, message, stack) ==
    Thrown({"Error"}, Str(name), Str(message), stack, 0, Undef)

\* a thrown value that is no Error (throw 'text', throw {...})
NonError == Thrown({}, Undef, Undef, Undef, 0, Undef)

\* a thrown object that is no Error but has a message and a stack of its own
NonErrorObject(message, stack) == Thrown({}, Undef, Str(message), stack, 0, Undef)

\* the request fields the guard, the interceptor and the filter read:
\* request.ip, request.connection.remoteAddress, request.route?.path,
\* request.url and request.method
Request(ip, remoteAddress, routePath, url, method) ==
    [ip |-> ip, remoteAddress |-> remoteAddress, routePath |-> routePath,
     url |-> url, method |-> method]

(***************************************************************************)
(* GlobalExceptionFilter.catch                                             *)
(***************************************************************************)
FilterStatusErrorFirst(exception) ==
    IF InstanceOf(exception, "HttpException") THEN exception.status
    ELSE IF InstanceOf(exception, "Error") THEN INTERNAL_SERVER_ERROR
    ELSE IF InstanceOf(exception, "QueryFailedError") THEN BAD_REQUEST
    ELSE INTERNAL_SERVER_ERROR
FilterStatusFlat(exception) ==
    IF InstanceOf(exception, "HttpException") THEN BAD_REQUEST
    ELSE IF InstanceOf(exception, "QueryFailedError") THEN BAD_REQUEST
    ELSE INTERNAL_SERVER_ERROR
FilterStatus(exception) ==
    IF InstanceOf(exception, "HttpException") THEN exception.status
    ELSE IF InstanceOf(exception, "QueryFailedError") THEN BAD_REQUEST
    ELSE INTERNAL_SERVER_ERROR

FilterMessageRaw(exception) ==
    IF InstanceOf(exception, "HttpException") THEN
        IF IsObj(exception.response)
        THEN OrElse(Get(exception.response, "message"), exception.message)
        ELSE exception.response
    ELSE IF InstanceOf(exception, "Error")
        THEN OrElse(exception.message, Str("Internal server error"))
    ELSE Str("Internal server error")
FilterMessage(exception) ==
    IF InstanceOf(exception, "HttpException") THEN
        IF IsObj(exception.response)
        THEN OrElse(Get(exception.response, "message"), exception.message)
        ELSE exception.response
    ELSE IF InstanceOf(exception, "QueryFailedError") THEN Str("Database query failed")
    ELSE IF InstanceOf(exception, "Error")
        THEN OrElse(exception.message, Str("Internal server error"))
    ELSE Str("Internal server error")

FilterErrorInternal(exception) ==
    IF InstanceOf(exception, "HttpException") THEN
        IF IsObj(exception.response)
        THEN OrElse(Get(exception.response, "error"), exception.name)
        ELSE exception.name
    ELSE IF InstanceOf(exception, "QueryFailedError") THEN Str("QueryFailedError")
    ELSE IF InstanceOf(exception, "Error")
        THEN OrElse(exception.name, Str("InternalServerError"))
    ELSE Str("InternalServerError")
FilterErrorByName(exception) ==
    IF InstanceOf(exception, "HttpException") THEN exception.name
    ELSE IF InstanceOf(exception, "QueryFailedError") THEN Str("QueryFailedError")
    ELSE IF InstanceOf(exception, "Error")
        THEN OrElse(exception.name, Str("InternalServerError"))
    ELSE Str("UnknownError")
FilterError(exception) ==
    IF InstanceOf(exception, "HttpException") THEN
        IF IsObj(exception.response)
        THEN OrElse(Get(exception.response, "error"), exception.name)
        ELSE exception.name
    ELSE IF InstanceOf(exception, "QueryFailedError") THEN Str("QueryFailedError")
    ELSE IF InstanceOf(exception, "Error")
        THEN OrElse(exception.name, Str("InternalServerError"))
    ELSE Str("UnknownError")

\* one Logger line: the message, the trace or context argument, and (for the
\* lines that carry them) the status code and the serialized payload
LogLine(msg, trace, status, payload) ==
    [msg |-> msg, trace |-> trace, status |-> status, payload |-> payload]

\* the branch's own logger.error call (none in the HttpException branch)
FilterBranchLog(exception) ==
    IF InstanceOf(exception, "HttpException") THEN <<>>
    ELSE IF InstanceOf(exception, "QueryFailedError")
        THEN <<LogLine(Text(<<"Database error: ", exception.message.str>>),
                       exception.stack, 0, <<>>)>>
    ELSE IF InstanceOf(exception, "Error")
        THEN <<LogLine(Text(<<"Unexpected error: ", exception.message.str>>),
                       exception.stack, 0, <<>>)>>
    ELSE <<LogLine(Text(<<"Unknown error occurred">>), Undef, 0, <<>>)>>

EnvelopeKeysWithStack(dev) ==
    {"statusCode", "timestamp", "path", "method", "error", "message", "stack"}
\* the keys of the errorResponse literal; the spread adds stack in development
EnvelopeKeys(dev) ==
    {"statusCode", "timestamp", "path", "method", "error", "message"}
        \cup (IF dev THEN {"stack"} ELSE {})

ErrorResponse(exception, request, dev, clock) ==
    [k \in EnvelopeKeys(dev) |->
        CASE k = "statusCode" -> Num(FilterStatus(exception))
          [] k = "timestamp" -> Num(clock)
          [] k = "path" -> Str(request.url)
          [] k = "method" -> Str(request.method)
          [] k = "error" -> FilterError(exception)
          [] k = "message" -> FilterMessage(exception)
          [] k = "stack" ->
                IF InstanceOf(exception, "Error") THEN exception.stack ELSE Undef]

JsonKeepUndefined(o) == o
\* JSON.stringify / res.json: a key whose value is undefined is left out
Json(o) == [k \in {j \in DOMAIN o : ~IsUndef(o[j])} |-> o[k]]

FilterCatchOk(exception, request, dev, clock) ==
    [status |-> OK,
     body |-> Json(ErrorResponse(exception, request, dev, clock)),
     log |-> FilterBranchLog(exception)
             \o <<LogLine(Text(<<request.method, " ", request.url, " - <status>">>),
                          Undef, FilterStatus(exception),
                          Json(ErrorResponse(exception, request, dev, clock)))>>]
\* catch(exception, host): the response written and the server-side log lines
FilterCatch(exception, request, dev, clock) ==
    [status |-> FilterStatus(exception),
     body |-> Json(ErrorResponse(exception, request, dev, clock)),
     log |-> FilterBranchLog(exception)
             \o <<LogLine(Text(<<request.method, " ", request.url, " - <status>">>),
                          Undef, FilterStatus(exception),
                          Json(ErrorResponse(exception, request, dev, clock)))>>]

(***************************************************************************)
(* Rate limiting: the tiers of AppModule, the ThrottleEndpoint decorators  *)
(* and ThrottlerGuard.                                                     *)
(***************************************************************************)
ThrottlersReversed(ttl, limit) ==
    << [name |-> "long", ttl |-> ttl * 60, limit |-> limit * 60],
       [name |-> "medium", ttl |-> ttl * 10, limit |-> limit * 10],
       [name |-> "short", ttl |-> ttl, limit |-> limit] >>
ThrottlersShortOnly(ttl, limit) ==
    << [name |-> "short", ttl |-> ttl, limit |-> limit] >>
\* ThrottlerModule.forRootAsync: the three named throttlers, in this order,
\* from throttle.ttl and throttle.limit
Throttlers(ttl, limit) ==
    << [name |-> "short", ttl |-> ttl, limit |-> limit],
       [name |-> "medium", ttl |-> ttl * 10, limit |-> limit * 10],
       [name |-> "long", ttl |-> ttl * 60, limit |-> limit * 60] >>

\* Throttle({...}): route metadata, a function from throttler names to
\* {ttl, limit}
NoDecorator == [n \in {} |-> [ttl |-> 0, limit |-> 0]]
Strict == [n \in {"short"} |-> [ttl |-> 60000, limit |-> 10]]
Moderate == [n \in {"short"} |-> [ttl |-> 60000, limit |-> 30]]
Lenient == [n \in {"short"} |-> [ttl |-> 60000, limit |-> 100]]
Custom(limit, ttl) == [n \in {"default"} |-> [ttl |-> ttl, limit |-> limit]]

\* the guard's loop body before handleRequest: the route's metadata for this
\* throttler's name, or else the throttler's own value
ResolveLimit(decorator, throttler) ==
    IF throttler.name \in DOMAIN decorator /\ decorator[throttler.name].limit # 0
    THEN decorator[throttler.name].limit ELSE throttler.limit

ResolveTtl(decorator, throttler) ==
    IF throttler.name \in DOMAIN decorator /\ decorator[throttler.name].ttl # 0
    THEN decorator[throttler.name].ttl ELSE throttler.ttl

\* ThrottlerGuard.getTracker
getTracker(request) ==
    OrElse(OrElse(request.ip, request.remoteAddress), Str("unknown"))

\* (variant) the key built from the literal path of the request
generateKeyByUrl(request, tracker, name) ==
    name \o ":" \o tracker.str \o ":" \o request.url

\* ThrottlerGuard.generateKey: the string `${name}:${tracker}:${route}`
generateKey(request, tracker, name) ==
    name \o ":" \o tracker.str \o ":" \o OrElse(request.routePath, Str(request.url)).str

\* ThrottlerGuard.throwThrottlingException: the exception thrown
ThrottlingExceptionAs(request, clock, status) ==
    HttpException("HttpException",
        Obj([k \in {"statusCode", "message", "error", "timestamp", "path",
                    "method", "details"} |->
            CASE k = "statusCode" -> Num(TOO_MANY_REQUESTS)
              [] k = "message" -> Str("Too Many Requests")
              [] k = "error" -> Str("ThrottlerException")
              [] k = "timestamp" -> Num(clock)
              [] k = "path" -> Str(request.url)
              [] k = "method" -> Str(request.method)
              [] k = "details" -> Str("Rate limit exceeded. Please try again later.")]),
        status)

ThrottlingExceptionForbidden(request, clock) ==
    ThrottlingExceptionAs(request, clock, 403)
ThrottlingException(request, clock) ==
    ThrottlingExceptionAs(request, clock, TOO_MANY_REQUESTS)

\* The counting store (RateLimitRecord): a record is created on the first
\* request, reset once now - windowStart > ttl, then incremented.
NoRecord == [absent |-> TRUE]
IsRecord(r) == "totalHits" \in DOMAIN r

Lookup(store, key) == IF key \in DOMAIN store THEN store[key] ELSE NoRecord

StorageIncrementAmnesic(record, ttl, clock) ==
    [totalHits |-> 1, windowStart |-> clock]
StorageIncrement(record, ttl, clock) ==
    LET live == IF IsRecord(record) /\ ~(clock - record.windowStart > ttl)
                THEN record
                ELSE [totalHits |-> 0, windowStart |-> clock]
    IN [live EXCEPT !.totalHits = @ + 1]

\* The record an increment starts from.  The store is process memory and
\* increment has no suspension point: it reads the record as it is when it
\* writes, not as it was when handleRequest began (atEntry).
RecordReadStale(current, atEntry) == atEntry
RecordRead(current, atEntry) == current

\* handleRequest's verdict on the post-increment count
ExceedsByTwo(totalHits, limit) == totalHits > limit + 1
Exceeds(totalHits, limit) == totalHits > limit

(***************************************************************************)
(* State.                                                                  *)
(***************************************************************************)
VARIABLES
    config,     \* the environment: throttle.ttl, throttle.limit, NODE_ENV,
                \* the route table (pattern -> decorator) and the clients
    now,        \* Date.now()
    storage,    \* the guard's counting store: key -> record
    reqs,       \* the requests in flight: slot -> process
    last,       \* the request that completed last, with its response
    left,       \* arrivals still to come
    journal     \* history: key -> the hits on it, <<time, admitted by the tier>>

vars == <<config, now, storage, reqs, last, left, journal>>

\* bounds of the model
MaxRequests == 11
MaxTicks == 2
MaxOver == 1
MaxInFlight == 2
\* the clock advances in steps of one default window (THROTTLE_TTL)
Step == 60000

Idle == [pc |-> "idle"]
NoLast == [none |-> TRUE]
NoException == [none |-> TRUE]
NoInput == [none |-> TRUE]

Process(req, pc) ==
    [pc |-> pc, req |-> req, tier |-> 1, atEntry |-> NoRecord, trace |-> <<>>,
     exception |-> NoException, logs |-> <<>>, data |-> Undef, startedAt |-> 0,
     input |-> NoInput, verrors |-> <<>>, closed |-> FALSE,
     statusCode |-> OK]

Put(f, k, v) == [x \in DOMAIN f \cup {k} |-> IF x = k THEN v ELSE f[x]]

Decorator(request) ==
    IF IsStr(request.routePath) /\ request.routePath.str \in DOMAIN config.routes
    THEN config.routes[request.routePath.str] ELSE NoDecorator

TierLimit(request, i) ==
    ResolveLimit(Decorator(request), Throttlers(config.ttl, config.limit)[i])
TierTtl(request, i) ==
    ResolveTtl(Decorator(request), Throttlers(config.ttl, config.limit)[i])
TierKey(request, i) ==
    generateKey(request, getTracker(request), Throttlers(config.ttl, config.limit)[i].name)

\* a client that was just refused MaxOver times in a running window waits
Saturated(request) ==
    \E i \in 1..Len(Throttlers(config.ttl, config.limit)) :
        LET r == Lookup(storage, TierKey(request, i))
        IN /\ IsRecord(r)
           /\ ~(now - r.windowStart > TierTtl(request, i))
           /\ r.totalHits >= TierLimit(request, i) + MaxOver

\* the literal paths of the requests matched to a route pattern
Urls(route) ==
    IF route = "/items/:id" THEN {"/items/7"}
    ELSE IF route = "/users/:id" THEN {"/users/1", "/users/2?verbose=1"}
    ELSE IF route = "/examples/dates/validate"
    THEN {"/examples/dates/validate", "/examples/dates/validate?date=not-a-date",
          "/examples/dates/validate?date=2024-01-15"}
    ELSE {route}

\* a request arrives and is routed; the guard runs first (the request takes
\* the first free slot: slots have no meaning of their own)
Arrive(slot, ip, route) ==
    /\ left > 0
    /\ reqs[slot] = Idle
    /\ \A s \in config.slots : s < slot => reqs[s] # Idle
    /\ \E url \in Urls(route) :
         LET req == Request(ip, Undef, Str(route), url, "GET")
         IN /\ ~Saturated(req)
            /\ reqs' = [reqs EXCEPT ![slot] = Process(req, "tracker")]
    /\ left' = left - 1
    /\ UNCHANGED <<config, now, storage, last, journal>>

\* handleRequest up to `await getTracker(req)`
GuardTracker(slot) ==
    LET p == reqs[slot]
    IN /\ p.pc = "tracker"
       /\ reqs' = [reqs EXCEPT ![slot] =
                     [p EXCEPT !.pc = "increment",
                               !.atEntry = Lookup(storage, TierKey(p.req, p.tier))]]
       /\ UNCHANGED <<config, now, storage, last, left, journal>>

\* (variant) every throttler is incremented, whatever an earlier one decided
GuardIncrementAll(slot) ==
    LET p == reqs[slot]
        key == TierKey(p.req, p.tier)
        limit == TierLimit(p.req, p.tier)
        ttl == TierTtl(p.req, p.tier)
        rec == StorageIncrement(RecordRead(Lookup(storage, key), p.atEntry), ttl, now)
        pass == ~Exceeds(rec.totalHits, limit)
        hits == IF key \in DOMAIN journal THEN journal[key] ELSE <<>>
        entry == [name |-> Throttlers(config.ttl, config.limit)[p.tier].name, key |-> key, totalHits |-> rec.totalHits,
                  limit |-> limit, ttl |-> ttl, idx |-> Len(hits) + 1, pass |-> pass]
        exception == IF pass \/ p.exception # NoException THEN p.exception
                     ELSE ThrottlingException(p.req, now)
    IN /\ p.pc = "increment"
       /\ storage' = Put(storage, key, rec)
       /\ journal' = Put(journal, key, Append(hits, [time |-> now, pass |-> pass, limit |-> limit, ttl |-> ttl]))
       /\ reqs' = [reqs EXCEPT ![slot] =
             IF p.tier < Len(Throttlers(config.ttl, config.limit))
             THEN [p EXCEPT !.pc = "tracker", !.tier = @ + 1,
                            !.trace = Append(@, entry), !.exception = exception]
             ELSE IF exception # NoException
             THEN [p EXCEPT !.pc = "thrown", !.trace = Append(@, entry),
                            !.exception = exception]
             ELSE [p EXCEPT !.pc = "admitted", !.trace = Append(@, entry)]]
       /\ UNCHANGED <<config, now, last, left>>

\* handleRequest from generateKey on: the increment, the check and either the
\* exception or the next throttler of canActivate's loop
GuardIncrement(slot) ==
    LET p == reqs[slot]
        key == TierKey(p.req, p.tier)
        limit == TierLimit(p.req, p.tier)
        ttl == TierTtl(p.req, p.tier)
        rec == StorageIncrement(RecordRead(Lookup(storage, key), p.atEntry), ttl, now)
        pass == ~Exceeds(rec.totalHits, limit)
        hits == IF key \in DOMAIN journal THEN journal[key] ELSE <<>>
        entry == [name |-> Throttlers(config.ttl, config.limit)[p.tier].name, key |-> key, totalHits |-> rec.totalHits,
                  limit |-> limit, ttl |-> ttl, idx |-> Len(hits) + 1, pass |-> pass]
    IN /\ p.pc = "increment"
       /\ storage' = Put(storage, key, rec)
       /\ journal' = Put(journal, key, Append(hits, [time |-> now, pass |-> pass, limit |-> limit, ttl |-> ttl]))
       /\ reqs' = [reqs EXCEPT ![slot] =
             IF ~pass
             THEN [p EXCEPT !.pc = "thrown", !.trace = Append(@, entry),
                            !.exception = ThrottlingException(p.req, now)]
             ELSE IF p.tier < Len(Throttlers(config.ttl, config.limit))
             THEN [p EXCEPT !.pc = "tracker", !.tier = @ + 1,
                            !.trace = Append(@, entry)]
             ELSE [p EXCEPT !.pc = "admitted", !.trace = Append(@, entry)]]
       /\ UNCHANGED <<config, now, last, left>>

Completed(p, admitted, response, log) ==
    [req |-> p.req, trace |-> p.trace, admitted |-> admitted,
     exception |-> p.exception, response |-> response,
     logs |-> p.logs, serverLog |-> log, input |-> p.input,
     verrors |-> p.verrors, closed |-> p.closed]

\* canActivate returned true: the request goes on to the rest of the pipeline
GuardAdmit(slot) ==
    LET p == reqs[slot]
    IN /\ p.pc = "admitted"
       /\ last' = Completed(p, TRUE, [status |-> 0, body |-> <<>>], <<>>)
       /\ reqs' = [reqs EXCEPT ![slot] = Idle]
       /\ UNCHANGED <<config, now, storage, left, journal>>

\* GlobalExceptionFilter.catch on what a stage threw
Catch(slot) ==
    LET p == reqs[slot]
        out == FilterCatch(p.exception, p.req, config.dev, now)
    IN /\ p.pc = "thrown"
       /\ last' = Completed(p, p.trace # <<>> /\ p.trace[Len(p.trace)].pass,
                             [status |-> out.status, body |-> out.body], out.log)
       /\ reqs' = [reqs EXCEPT ![slot] = Idle]
       /\ UNCHANGED <<config, now, storage, left, journal>>

Tick ==
    /\ now < MaxTicks * Step
    /\ now' = now + Step
    /\ UNCHANGED <<config, storage, reqs, last, left, journal>>

Quiet == \A slot \in config.slots : reqs[slot] = Idle

(***************************************************************************)
(* The guard alone: one client on one route, one request at a time, the    *)
(* clock advancing by whole windows between requests.                      *)
(***************************************************************************)
Decorators == {NoDecorator, Strict, Lenient, Custom(1, 60000), Custom(3, 60000)}

Config(ttl, limit, dev, routes, clients, slots) ==
    [ttl |-> ttl, limit |-> limit, dev |-> dev, routes |-> routes,
     clients |-> clients, slots |-> slots, pipe |-> "nest", database |-> TRUE]

InitGuard ==
    /\ \E ttl \in {30000, 60000}, limit \in {1, 2}, d \in Decorators :
         config = Config(ttl, limit, FALSE, [r \in {"/items/:id"} |-> d],
                         {Str("10.0.0.1")}, {1})
    /\ now = 0
    /\ storage = <<>>
    /\ journal = <<>>
    /\ reqs = [s \in 1..MaxInFlight |-> Idle]
    /\ last = NoLast
    /\ left = MaxRequests

NextGuard ==
    \/ \E slot \in config.slots, ip \in config.clients, route \in DOMAIN config.routes :
            Arrive(slot, ip, route)
    \/ \E slot \in config.slots : GuardTracker(slot)
    \/ \E slot \in config.slots : GuardIncrement(slot)
    \/ \E slot \in config.slots : GuardAdmit(slot)
    \/ \E slot \in config.slots : Catch(slot)
    \/ Quiet /\ Tick

SpecGuard == InitGuard /\ [][NextGuard]_vars

(***************************************************************************)
(* Fixed windows read off the history of a bucket.                         *)
(***************************************************************************)
RECURSIVE WindowStarts(_, _)
\* for each hit, the start of the window it falls in: the first hit opens a
\* window, and so does every hit later than ttl after the running one
WindowStarts(hits, ttl) ==
    IF hits = <<>> THEN <<>>
    ELSE LET front == WindowStarts(SubSeq(hits, 1, Len(hits) - 1), ttl)
             t == hits[Len(hits)].time
         IN Append(front, IF front = <<>> \/ t - front[Len(front)] > ttl
                          THEN t ELSE front[Len(front)])

\* the hits up to the i-th that fall in the window of the i-th
SameWindow(hits, i, ttl) ==
    LET starts == WindowStarts(SubSeq(hits, 1, i), ttl)
    IN {j \in 1..i : starts[j] = starts[i]}

\* the i-th hit is the OrdinalInWindow-th request of its window
OrdinalInWindow(hits, i, ttl) == Cardinality(SameWindow(hits, i, ttl))

\* the i-th hit comes more than ttl after the window of the hit before it began
AfterWindow(hits, i, ttl) ==
    /\ i > 1
    /\ hits[i].time - WindowStarts(SubSeq(hits, 1, i - 1), ttl)[i - 1] > ttl

Entries(trace) == {trace[i] : i \in DOMAIN trace}
GuardDone == last # NoLast
Rejected == GuardDone /\ last.trace # <<>> /\ ~last.trace[Len(last.trace)].pass
EntryOrdinal(e) == OrdinalInWindow(journal[e.key], e.idx, e.ttl)

\* C1: in a tier with limit N and window W, a request that is among the
\* first N of its window passes the tier, a request that is the (N+1)-th or
\* later of its window is refused with status 429, and a request arriving
\* more than W after the window started opens a new window and passes.
C1_FixedWindowAdmission ==
    GuardDone =>
        \A e \in Entries(last.trace) :
            /\ EntryOrdinal(e) <= e.limit => e.pass
            /\ EntryOrdinal(e) > e.limit =>
                    ~e.pass /\ ~last.admitted /\ last.response.status = 429
            /\ AfterWindow(journal[e.key], e.idx, e.ttl) => e.pass

\* a bucket whose first N requests passed and whose (N+1)-th, in the same
\* window, was refused; the next request, after the window, passes
C1_Witness ==
    /\ GuardDone
    /\ \E e \in Entries(last.trace) :
          /\ e.idx = e.limit + 2
          /\ e.pass
          /\ AfterWindow(journal[e.key], e.idx, e.ttl)
          /\ \A j \in 1..e.limit : journal[e.key][j].pass
          /\ ~journal[e.key][e.limit + 1].pass
          /\ OrdinalInWindow(journal[e.key], e.limit + 1, e.ttl) = e.limit + 1

\* C2: a request is admitted only if it passed all three tiers, short,
\* medium and long; a request that is over the limit of any tier it reached
\* is refused, whatever the counts of the other tiers.
C2_AllTiersMustPass ==
    GuardDone =>
        /\ last.admitted =>
              /\ [i \in DOMAIN last.trace |-> last.trace[i].name]
                    = <<"short", "medium", "long">>
              /\ \A e \in Entries(last.trace) : EntryOrdinal(e) <= e.limit
        /\ (\E e \in Entries(last.trace) : EntryOrdinal(e) > e.limit)
              => ~last.admitted /\ last.response.status = 429

\* refused by the medium tier while the short tier is within its limit
C2_Witness ==
    /\ Rejected
    /\ Len(last.trace) = 2
    /\ last.trace[1].pass /\ last.trace[1].totalHits <= last.trace[1].limit
    /\ last.trace[2].name = "medium" /\ ~last.trace[2].pass

\* the limit a route declares with ThrottleEndpoint
Declared(request) ==
    Decorator(request)[CHOOSE n \in DOMAIN Decorator(request) : TRUE]

\* C3: on a route that declares its own limit (count, window), a request is
\* refused exactly when it is beyond the count-th request of the declared
\* window; no global tier refuses it.
C3_OverrideSupersedesTiers ==
    (GuardDone /\ DOMAIN Decorator(last.req) # {}) =>
        LET e == last.trace[1]
            ord == OrdinalInWindow(journal[e.key], e.idx, Declared(last.req).ttl)
        IN last.admitted <=> ord <= Declared(last.req).limit

\* C4: a request refused by the rate limiter is answered 429 with the
\* envelope statusCode 429, message "Too Many Requests", error
\* "ThrottlerException" and the path and method of the request.
C4_ThrottleEnvelope ==
    Rejected =>
        /\ last.response.status = 429
        /\ last.response.body["statusCode"] = Num(429)
        /\ last.response.body["message"] = Str("Too Many Requests")
        /\ last.response.body["error"] = Str("ThrottlerException")
        /\ last.response.body["path"] = Str(last.req.url)
        /\ last.response.body["method"] = Str(last.req.method)

C4_Witness == Rejected /\ last.response.status = 429

(***************************************************************************)
(* Concurrent requests of one client on one route, all within one window:   *)
(* the stages of the requests interleave at their suspension points.       *)
(***************************************************************************)
MaxConcurrent == 3

InitConcurrent ==
    /\ \E limit \in {1, 2}, d \in {NoDecorator} :
         config = Config(60000, limit, FALSE, [r \in {"/items/:id"} |-> d],
                         {Str("10.0.0.1")}, 1..MaxInFlight)
    /\ now = 0
    /\ storage = <<>>
    /\ journal = <<>>
    /\ reqs = [s \in 1..MaxInFlight |-> Idle]
    /\ last = NoLast
    /\ left = MaxConcurrent

NextConcurrent ==
    \/ \E slot \in config.slots, ip \in config.clients, route \in DOMAIN config.routes :
            Arrive(slot, ip, route)
    \/ \E slot \in config.slots : GuardTracker(slot)
    \/ \E slot \in config.slots : GuardIncrement(slot)
    \/ \E slot \in config.slots : GuardAdmit(slot)
    \/ \E slot \in config.slots : Catch(slot)

SpecConcurrent == InitConcurrent /\ [][NextConcurrent]_vars

\* C5: under every interleaving of requests of one identity no increment is
\* lost (the stored count of a bucket is the number of requests that hit it
\* in its running window) and no window admits more requests than the limit.
C5_NoLostIncrement ==
    \A key \in DOMAIN journal :
        LET hits == journal[key]
            n == Len(hits)
        IN /\ storage[key].totalHits = OrdinalInWindow(hits, n, hits[n].ttl)
           /\ \A i \in 1..n :
                 Cardinality({j \in SameWindow(hits, i, hits[i].ttl) : hits[j].pass})
                    <= hits[i].limit

\* a request about to increment a bucket that another request has
\* incremented since this one entered handleRequest
C5_Witness ==
    \E slot \in config.slots :
        /\ reqs[slot].pc = "increment"
        /\ IsRecord(Lookup(storage, TierKey(reqs[slot].req, reqs[slot].tier)))
        /\ reqs[slot].atEntry # Lookup(storage, TierKey(reqs[slot].req, reqs[slot].tier))
        /\ ~(now - Lookup(storage, TierKey(reqs[slot].req, reqs[slot].tier)).windowStart
                > TierTtl(reqs[slot].req, reqs[slot].tier))

(***************************************************************************)
(* Validation: the result of class-validator for the example shape, the    *)
(* exception factory of the pipe installed by bootstrap and the one of the *)
(* repository's own ValidationPipe.                                        *)
(***************************************************************************)
\* a class-validator ValidationError; constraints is undefined or the
\* messages of the violated constraints, in the order of Object.values
ValidationError(property, value, constraints, children) ==
    [property |-> property, value |-> value, constraints |-> constraints,
     children |-> children]

\* the target shape of the example endpoint: { name: non-empty string }
DtoFields == {"name"}
\* the properties an input can carry, in the order they are visited
Fields == <<"name", "admin", "role">>

\* an input object: its name, if any, and its other fields
Input(name, extra) ==
    [k \in (IF IsUndef(name) THEN {} ELSE {"name"}) \cup extra |->
        IF k = "name" THEN name ELSE Str("true")]

Inputs ==
    {Input(name, extra) : name \in {Undef, Str(""), Str("widget")},
                          extra \in SUBSET {"admin", "role"}}

Undeclared(input) == DOMAIN input \ DtoFields

\* whitelist: true, forbidNonWhitelisted: true
WhitelistErrors(input) ==
    LET found == SelectSeq(Fields, LAMBDA f : f \in Undeclared(input))
    IN [i \in DOMAIN found |->
            ValidationError(found[i], input[found[i]],
                Arr(<<"property " \o found[i] \o " should not exist">>), <<>>)]

\* the constraints of the declared property
ConstraintErrors(input) ==
    IF "name" \notin DOMAIN input
    THEN <<ValidationError("name", Undef,
                Arr(<<"name should not be empty", "name must be a string">>), <<>>)>>
    ELSE IF input["name"] = Str("")
    THEN <<ValidationError("name", Str(""), Arr(<<"name should not be empty">>), <<>>)>>
    ELSE <<>>

\* validate(): every violation of the input, none stops the others
Validate(input) == WhitelistErrors(input) \o ConstraintErrors(input)

CurrentPathLeaf(parentPath, property) == property
\* parentPath ? `${parentPath}.${error.property}` : error.property
CurrentPath(parentPath, property) ==
    IF parentPath # "" THEN parentPath \o "." \o property ELSE property

RECURSIVE customFlattenValidationErrors(_, _)
\* ValidationPipe.customFlattenValidationErrors: extractErrors over the
\* errors in order; an error gives one entry per constraint, then the
\* entries of its children under its own path
customFlattenValidationErrors(validationErrors, parentPath) ==
    IF validationErrors = <<>> THEN <<>>
    ELSE LET error == Head(validationErrors)
             currentPath == CurrentPath(parentPath, error.property)
             own == IF IsUndef(error.constraints) THEN <<>>
                    ELSE [i \in DOMAIN error.constraints.arr |->
                            Obj([field |-> Str(currentPath),
                                 message |-> Str(error.constraints.arr[i]),
                                 value |-> error.value])]
             nested == IF Len(error.children) > 0
                       THEN customFlattenValidationErrors(error.children, currentPath)
                       ELSE <<>>
         IN own \o nested
                \o customFlattenValidationErrors(Tail(validationErrors), parentPath)

\* the exceptionFactory of the repository's ValidationPipe
CustomExceptionFactory(validationErrors) ==
    BadRequestException(
        Obj([message |-> Str("Validation failed"),
             errors |-> Arr(customFlattenValidationErrors(validationErrors, ""))]))

RECURSIVE flattenValidationErrors(_, _)
\* the default exceptionFactory's flattening: the constraint messages of the
\* errors without children, those of nested errors prefixed with the path
flattenValidationErrors(validationErrors, parentPath) ==
    IF validationErrors = <<>> THEN <<>>
    ELSE LET error == Head(validationErrors)
             own == IF IsUndef(error.constraints) THEN <<>>
                    ELSE [i \in DOMAIN error.constraints.arr |->
                            IF parentPath # ""
                            THEN parentPath \o "." \o error.constraints.arr[i]
                            ELSE error.constraints.arr[i]]
         IN (IF Len(error.children) > 0
             THEN flattenValidationErrors(error.children,
                                          CurrentPath(parentPath, error.property))
             ELSE own)
                \o flattenValidationErrors(Tail(validationErrors), parentPath)

\* the exceptionFactory of the pipe bootstrap installs (none is configured):
\* new BadRequestException(messages)
NestExceptionFactory(validationErrors) ==
    BadRequestException(Arr(flattenValidationErrors(validationErrors, "")))

(***************************************************************************)
(* The whole pipeline of one route: ThrottlerGuard, LoggingInterceptor,    *)
(* the validation pipe, the handler and GlobalExceptionFilter.             *)
(***************************************************************************)
\* one record of LoggingInterceptor: the request record, or the record of
\* tap's next (level "log") or error (level "error") callback
LoggerRecord(kind, level, responseTime, note) ==
    [kind |-> kind, level |-> level, responseTime |-> responseTime, note |-> note]

\* the record of tap's next or error callback, with the statusCode it read
EndRecord(level, responseTime, note, statusCode) ==
    [kind |-> "end", level |-> level, responseTime |-> responseTime,
     note |-> note, statusCode |-> statusCode]

\* JSON.stringify(data): undefined for undefined
JsonStringify(data) == IF IsUndef(data) THEN Undef ELSE [json |-> data]

\* what reading .length of undefined throws
LengthTypeError ==
    PlainError("TypeError", "Cannot read properties of undefined (reading 'length')",
               MkStack("TypeError", "Cannot read properties of undefined (reading 'length')"))

\* what the handler of the example route can return
HandlerReturns == {Obj([id |-> Num(7)]), Undef}

\* what it can throw
HandlerThrows ==
    {HttpException("NotFoundException", Str("Item not found"), 404),
     QueryFailedError("duplicate key value violates unique constraint",
                      MkStack("QueryFailedError",
                              "duplicate key value violates unique constraint")),
     PlainError("Error", "boom", MkStack("Error", "boom")),
     NonError}

\* intercept() up to next.handle(): the request record is logged
InterceptorEnter(slot) ==
    LET p == reqs[slot]
    IN /\ p.pc = "admitted"
       /\ reqs' = [reqs EXCEPT ![slot] =
             [p EXCEPT !.pc = "pipes", !.startedAt = now,
                       !.logs = Append(@, LoggerRecord("start", "log", 0,
                                                       Str(p.req.url)))]]
       /\ UNCHANGED <<config, now, storage, last, left, journal>>

\* (variant) a pipe that hands every input to the handler
PipesAcceptAll(slot) ==
    LET p == reqs[slot]
    IN /\ p.pc = "pipes"
       /\ \E input \in Inputs :
            reqs' = [reqs EXCEPT ![slot] = [p EXCEPT !.pc = "handler", !.input = input]]
       /\ UNCHANGED <<config, now, storage, last, left, journal>>

\* ValidationPipe.transform on the input of the request: the handler is
\* called with a valid input, the exception factory with the violations
Pipes(slot) ==
    LET p == reqs[slot]
    IN /\ p.pc = "pipes"
       /\ \E input \in Inputs :
            reqs' = [reqs EXCEPT ![slot] =
                IF Validate(input) = <<>>
                THEN [p EXCEPT !.pc = "handler", !.input = input]
                ELSE [p EXCEPT !.pc = "factory", !.input = input,
                               !.verrors = Validate(input)]]
       /\ UNCHANGED <<config, now, storage, last, left, journal>>

\* exceptionFactory(validationErrors), and the throw of what it returns
ExceptionFactory(slot) ==
    LET p == reqs[slot]
    IN /\ p.pc = "factory"
       /\ reqs' = [reqs EXCEPT ![slot] =
             [p EXCEPT !.pc = "failing",
                       !.exception = IF config.pipe = "custom"
                                     THEN CustomExceptionFactory(p.verrors)
                                     ELSE NestExceptionFactory(p.verrors)]]
       /\ UNCHANGED <<config, now, storage, last, left, journal>>

\* the route handler returns a value or throws
Handler(slot) ==
    LET p == reqs[slot]
    IN /\ p.pc = "handler"
       /\ \/ \E data \in HandlerReturns :
                reqs' = [reqs EXCEPT ![slot] = [p EXCEPT !.pc = "emitted", !.data = data]]
          \/ \E exception \in HandlerThrows :
                reqs' = [reqs EXCEPT ![slot] =
                            [p EXCEPT !.pc = "failing", !.exception = exception]]
       /\ UNCHANGED <<config, now, storage, last, left, journal>>

\* tap's next callback: the arguments of logger.log are evaluated first, and
\* JSON.stringify(data).length throws when data is undefined; what a next
\* callback throws goes down the stream as an error, past tap's own error
\* callback
TapNext(slot) ==
    LET p == reqs[slot]
    IN /\ p.pc = "emitted"
       /\ reqs' = [reqs EXCEPT ![slot] =
             IF IsUndef(JsonStringify(p.data))
             THEN [p EXCEPT !.pc = "thrown", !.exception = LengthTypeError]
             ELSE [p EXCEPT !.pc = "replying",
                            !.logs = Append(@, EndRecord("log",
                                                 now - p.startedAt,
                                                 JsonStringify(p.data),
                                                 Num(p.statusCode)))]]
       /\ UNCHANGED <<config, now, storage, last, left, journal>>

\* (variant) an error callback that logs nothing
TapErrorSilent(slot) ==
    LET p == reqs[slot]
    IN /\ p.pc = "failing"
       /\ reqs' = [reqs EXCEPT ![slot] = [p EXCEPT !.pc = "thrown"]]
       /\ UNCHANGED <<config, now, storage, last, left, journal>>

\* tap's error callback: the record is logged and the error goes on
TapError(slot) ==
    LET p == reqs[slot]
    IN /\ p.pc = "failing"
       /\ reqs' = [reqs EXCEPT ![slot] =
             [p EXCEPT !.pc = "thrown",
                       !.logs = Append(@, EndRecord("error",
                                            now - p.startedAt, p.exception.message,
                                            OrElse(Num(p.statusCode),
                                                   Num(INTERNAL_SERVER_ERROR))))]]
       /\ UNCHANGED <<config, now, storage, last, left, journal>>

\* the framework writes the value the stream emitted
Reply(slot) ==
    LET p == reqs[slot]
    IN /\ p.pc = "replying"
       /\ last' = Completed(p, TRUE, [status |-> OK, body |-> p.data.obj], <<>>)
       /\ reqs' = [reqs EXCEPT ![slot] = Idle]
       /\ UNCHANGED <<config, now, storage, left, journal>>

\* the client closes the connection while its request is between the
\* interceptor's request record and the reply: nothing listens for it,
\* and the stream of next.handle() stays subscribed
Disconnect(slot) ==
    LET p == reqs[slot]
    IN /\ p.pc \in {"pipes", "factory", "handler", "emitted", "failing"}
       /\ ~p.closed
       /\ reqs' = [reqs EXCEPT ![slot] = [p EXCEPT !.closed = TRUE]]
       /\ UNCHANGED <<config, now, storage, last, left, journal>>

MaxArrivals == 2

Init ==
    /\ \E dev \in BOOLEAN, pipe \in {"nest", "custom"} :
         config = [Config(60000, 1, dev, [r \in {"/items/:id"} |-> NoDecorator],
                          {Str("10.0.0.1")}, {1}) EXCEPT !.pipe = pipe]
    /\ now = 0
    /\ storage = <<>>
    /\ journal = <<>>
    /\ reqs = [s \in 1..MaxInFlight |-> Idle]
    /\ last = NoLast
    /\ left = MaxArrivals

Next ==
    \/ \E slot \in config.slots, ip \in config.clients, route \in DOMAIN config.routes :
            Arrive(slot, ip, route)
    \/ \E slot \in config.slots : GuardTracker(slot)
    \/ \E slot \in config.slots : GuardIncrement(slot)
    \/ \E slot \in config.slots : InterceptorEnter(slot)
    \/ \E slot \in config.slots : Pipes(slot)
    \/ \E slot \in config.slots : ExceptionFactory(slot)
    \/ \E slot \in config.slots : Handler(slot)
    \/ \E slot \in config.slots : TapNext(slot)
    \/ \E slot \in config.slots : TapError(slot)
    \/ \E slot \in config.slots : Reply(slot)
    \/ \E slot \in config.slots : Catch(slot)
    \/ \E slot \in config.slots : Disconnect(slot)
    \/ Quiet /\ Tick

Spec == Init /\ [][Next]_vars

\* a request was answered
Answered == last # NoLast /\ last.response.status # 0

\* C6: every request produces exactly one start log entry and exactly one
\* end log entry, the start before the end, also when the handler raises.
C6_OneStartOneEnd ==
    Answered => [i \in DOMAIN last.logs |-> last.logs[i].kind] = <<"start", "end">>

\* an entry of `details` names the field
Lists(details, field) ==
    /\ IsArr(details)
    /\ \E i \in DOMAIN details.arr :
          IsObj(details.arr[i]) /\ Get(details.arr[i], "field") = Str(field)

\* C7: an input with a field that the target shape does not declare is
\* rejected with status 400 and an envelope whose `details` lists the field.
C7_UndeclaredFieldInDetails ==
    (Answered /\ last.input # NoInput /\ Undeclared(last.input) # {}) =>
        /\ last.response.status = BAD_REQUEST
        /\ "details" \in DOMAIN last.response.body
        /\ \A f \in Undeclared(last.input) :
              Lists(last.response.body["details"], f)

(***************************************************************************)
(* The filter on its own: catch() applied to every kind of thrown value.   *)
(***************************************************************************)
\* a structured body with the message and the error given (undefined: none)
ObjBody(message, error) ==
    Obj([k \in (IF IsUndef(message) THEN {} ELSE {"message"})
                \cup (IF IsUndef(error) THEN {} ELSE {"error"}) |->
            IF k = "message" THEN message ELSE error])

HttpBodies ==
    {Str("Item not found"), Str("")}
        \cup {ObjBody(message, error) :
                message \in {Undef, Str(""), Str("Item not found"),
                             Arr(<<"name should not be empty", "name must be a string">>)},
                error \in {Undef, Str(""), Str("Not Found")}}

Details ==
    {"duplicate key value violates unique constraint", "relation users does not exist"}

Throwables ==
    {HttpException(name, body, status) :
        name \in {"HttpException", "NotFoundException"}, body \in HttpBodies,
        status \in {404, 409}}
    \cup {QueryFailedError(detail, stack) :
            detail \in Details,
            stack \in {Undef} \cup {MkStack("QueryFailedError", d) : d \in Details}}
    \cup {PlainError(name, message, stack) :
            name \in {"TypeError", ""}, message \in {"boom", ""},
            stack \in {Undef, MkStack("TypeError", "boom")}}
    \cup {NonError}
    \cup {NonErrorObject(message, stack) :
            message \in {"boom"}, stack \in {Undef, MkStack("Object", "boom")}}

InitFilter ==
    /\ \E dev \in BOOLEAN, method \in {"GET", "POST"}, exception \in Throwables :
         /\ config = Config(60000, 1, dev, [r \in {"/items/:id"} |-> NoDecorator],
                            {Str("10.0.0.1")}, {1})
         /\ reqs = [s \in 1..MaxInFlight |->
                IF s = 1
                THEN [Process(Request(Str("10.0.0.1"), Undef, Str("/items/:id"),
                                      "/items/7", method), "thrown")
                        EXCEPT !.exception = exception]
                ELSE Idle]
    /\ now = 0
    /\ storage = <<>>
    /\ journal = <<>>
    /\ last = NoLast
    /\ left = 0

NextFilter == \E slot \in config.slots : Catch(slot)

SpecFilter == InitFilter /\ [][NextFilter]_vars

\* the envelope has the key with this value, or lacks the key if there is none
FieldIs(body, k, v) ==
    IF IsUndef(v) THEN k \notin DOMAIN body ELSE k \in DOMAIN body /\ body[k] = v

\* for an HttpException the envelope's statusCode is the failure's status,
\* its message and error are those of the structured body; for a string
\* body the message is the string and the error the failure's type name
C9_TakenDirectly ==
    (Answered /\ InstanceOf(last.exception, "HttpException")) =>
        LET body == last.response.body
            r == last.exception.response
        IN /\ last.response.status = last.exception.status
           /\ body["statusCode"] = Num(last.exception.status)
           /\ IsObj(r) => /\ FieldIs(body, "message", Get(r, "message"))
                          /\ FieldIs(body, "error", Get(r, "error"))
           /\ IsStr(r) => /\ body["message"] = r
                          /\ body["error"] = last.exception.name

\* C9: for an HttpException the envelope's statusCode is the failure's own
\* status; message and error are those of its structured body where the
\* body has a non-empty one, and otherwise the failure's own message and
\* type name; for a string body the message is that string and the error
\* the failure's type name.
C9_DeclaredFailure ==
    (Answered /\ InstanceOf(last.exception, "HttpException")) =>
        LET body == last.response.body
            r == last.exception.response
        IN /\ last.response.status = last.exception.status
           /\ body["statusCode"] = Num(last.exception.status)
           /\ IsObj(r) =>
                /\ body["message"] = IF Falsy(Get(r, "message"))
                                     THEN last.exception.message
                                     ELSE Get(r, "message")
                /\ body["error"] = IF Falsy(Get(r, "error"))
                                   THEN last.exception.name
                                   ELSE Get(r, "error")
           /\ IsStr(r) => /\ body["message"] = r
                          /\ body["error"] = last.exception.name

\* a structured body without an error name: the envelope names the type
C9_Witness ==
    /\ Answered
    /\ InstanceOf(last.exception, "HttpException")
    /\ IsObj(last.exception.response)
    /\ IsUndef(Get(last.exception.response, "error"))
    /\ IsArr(Get(last.exception.response, "message"))
    /\ last.response.body["error"] = Str("NotFoundException")
    /\ last.response.status = 404

\* a QueryFailedError is answered 400, "QueryFailedError", "Database query
\* failed"; its detail is logged and is in no field of the response
C10_DetailInNoField ==
    (Answered /\ InstanceOf(last.exception, "QueryFailedError")) =>
        LET body == last.response.body
            detail == last.exception.message.str
        IN /\ last.response.status = 400
           /\ body["statusCode"] = Num(400)
           /\ body["error"] = Str("QueryFailedError")
           /\ body["message"] = Str("Database query failed")
           /\ \E i \in DOMAIN last.serverLog : Mentions(last.serverLog[i].msg, detail)
           /\ \A k \in DOMAIN body : ~Mentions(body[k], detail)

\* C10: a QueryFailedError is answered 400 with error "QueryFailedError" and
\* message "Database query failed"; its detail is written to the server log
\* and is in no field of the response other than the stack, which the
\* response has in development mode only.
C10_DataLayerFailure ==
    (Answered /\ InstanceOf(last.exception, "QueryFailedError")) =>
        LET body == last.response.body
            detail == last.exception.message.str
        IN /\ last.response.status = 400
           /\ body["statusCode"] = Num(400)
           /\ body["error"] = Str("QueryFailedError")
           /\ body["message"] = Str("Database query failed")
           /\ \E i \in DOMAIN last.serverLog : Mentions(last.serverLog[i].msg, detail)
           /\ \A k \in DOMAIN body \ {"stack"} : ~Mentions(body[k], detail)
           /\ "stack" \in DOMAIN body => config.dev

\* outside development mode, a failure whose stack holds the detail
C10_Witness ==
    /\ Answered
    /\ InstanceOf(last.exception, "QueryFailedError")
    /\ ~config.dev
    /\ Mentions(last.exception.stack, last.exception.message.str)
    /\ last.response.body["message"] = Str("Database query failed")

(***************************************************************************)
(* The repository's exception factory on nested validation results.  A     *)
(* result is drawn as a forest: parent[i] is the error that error i is a   *)
(* child of (0: none), children in the order of their numbers, ncons[i]    *)
(* the number of constraints error i violates.                             *)
(***************************************************************************)
MaxNodes == 3
MaxConstraints == 2

PropertyName(i) == "p" \o ToString(i)
ConstraintMessage(i, j) == PropertyName(i) \o " violates rule " \o ToString(j)
RejectedValue(i) == Str("value of " \o PropertyName(i))

Shapes ==
    UNION {{[parent |-> parent, ncons |-> ncons] :
                parent \in {f \in [1..n -> 0..(n - 1)] : \A i \in 1..n : f[i] < i},
                ncons \in [1..n -> 0..MaxConstraints]} : n \in 0..MaxNodes}

IsShape(x) == "parent" \in DOMAIN x

RECURSIVE Children(_, _)
\* the ValidationErrors whose parent is error i, each with its own children
Children(shape, i) ==
    LET kids == SelectSeq([k \in DOMAIN shape.parent |-> k],
                          LAMBDA k : shape.parent[k] = i)
    IN [x \in DOMAIN kids |->
          ValidationError(PropertyName(kids[x]), RejectedValue(kids[x]),
              IF shape.ncons[kids[x]] = 0 THEN Undef
              ELSE Arr([j \in 1..shape.ncons[kids[x]] |->
                            ConstraintMessage(kids[x], j)]),
              Children(shape, kids[x]))]

InitFlatten ==
    /\ \E shape \in Shapes :
         reqs = [s \in 1..MaxInFlight |->
            IF s = 1
            THEN [Process(Request(Str("10.0.0.1"), Undef, Str("/items/:id"),
                                  "/items/7", "GET"), "factory")
                    EXCEPT !.input = shape, !.verrors = Children(shape, 0),
                           !.logs = <<LoggerRecord("start", "log", 0, Str("/items/7"))>>]
            ELSE Idle]
    /\ config = [Config(60000, 1, FALSE, [r \in {"/items/:id"} |-> NoDecorator],
                        {Str("10.0.0.1")}, {1}) EXCEPT !.pipe = "custom"]
    /\ now = 0
    /\ storage = <<>>
    /\ journal = <<>>
    /\ last = NoLast
    /\ left = 0

NextFlatten ==
    \/ \E slot \in config.slots : ExceptionFactory(slot)
    \/ \E slot \in config.slots : TapError(slot)
    \/ \E slot \in config.slots : Catch(slot)

SpecFlatten == InitFlatten /\ [][NextFlatten]_vars

RECURSIVE Position(_, _)
\* the errors from the root down to error i
Position(shape, i) ==
    IF i = 0 THEN <<>> ELSE Append(Position(shape, shape.parent[i]), i)

\* a comes before b in the dictionary order; a prefix comes first
LexLess(a, b) ==
    \E m \in 0..Len(a) :
        /\ m <= Len(b)
        /\ \A x \in 1..m : a[x] = b[x]
        /\ \/ m = Len(a) /\ m < Len(b)
           \/ m < Len(a) /\ m < Len(b) /\ a[m + 1] < b[m + 1]

\* error k is met before error i by a depth-first walk: k is an ancestor of
\* i, or is in the subtree of an earlier sibling of i or of an ancestor of i
Before(shape, k, i) == LexLess(Position(shape, k), Position(shape, i))

RECURSIVE Total(_, _)
Total(ncons, nodes) ==
    IF nodes = {} THEN 0
    ELSE LET i == CHOOSE x \in nodes : TRUE
         IN ncons[i] + Total(ncons, nodes \ {i})

RECURSIVE Dotted(_, _)
\* the property names from the root to error i, joined by dots
Dotted(shape, i) ==
    IF shape.parent[i] = 0 THEN PropertyName(i)
    ELSE Dotted(shape, shape.parent[i]) \o "." \o PropertyName(i)

\* the list the rejection carries
Flattened == Get(last.exception.response, "errors").arr

\* C8: for a nested validation result with k violated constraints in all,
\* the list carried by the rejection has exactly k entries, one per violated
\* constraint, in depth-first order (the constraints of an error in their
\* order, before those of its descendants, and a subtree before the next
\* sibling), and the field of each entry is the dotted path of property
\* names from the root to the violating field.
C8_FlattenDepthFirst ==
    (Answered /\ IsShape(last.input)) =>
        LET shape == last.input
            nodes == DOMAIN shape.parent
        IN /\ Len(Flattened) = Total(shape.ncons, nodes)
           /\ \A i \in nodes : \A j \in 1..shape.ncons[i] :
                Flattened[Total(shape.ncons, {k \in nodes : Before(shape, k, i)}) + j]
                    = Obj([field |-> Str(Dotted(shape, i)),
                           message |-> Str(ConstraintMessage(i, j)),
                           value |-> RejectedValue(i)])

\* a result where depth-first order differs from the order of the levels:
\* a nested error with two violations, met before a later root error
C8_Witness ==
    /\ Answered
    /\ IsShape(last.input)
    /\ \E i, k \in DOMAIN last.input.parent :
          /\ last.input.parent[i] # 0
          /\ last.input.ncons[i] = 2
          /\ last.input.ncons[last.input.parent[i]] > 0
          /\ k < i
          /\ last.input.ncons[k] > 0
          /\ Before(last.input, i, k)
    /\ Len(Flattened) >= 4

(***************************************************************************)
(* The branches of the filter.                                             *)
(***************************************************************************)
\* the thrown value is an Error that is neither an HttpException nor a
\* QueryFailedError
GenericFault(exception) ==
    /\ InstanceOf(exception, "Error")
    /\ ~InstanceOf(exception, "HttpException")
    /\ ~InstanceOf(exception, "QueryFailedError")

\* C11: a generic runtime fault is answered 500 with error the fault's type
\* name when it has one and "InternalServerError" otherwise, and message the
\* fault's message when it has one and "Internal server error" otherwise.
C11_GenericFault ==
    (Answered /\ GenericFault(last.exception)) =>
        LET body == last.response.body
        IN /\ last.response.status = 500
           /\ body["statusCode"] = Num(500)
           /\ body["error"] = IF last.exception.name = Str("")
                              THEN Str("InternalServerError") ELSE last.exception.name
           /\ body["message"] = IF last.exception.message = Str("")
                                THEN Str("Internal server error")
                                ELSE last.exception.message

\* a fault with neither a name nor a message of its own
C11_Witness ==
    /\ Answered
    /\ GenericFault(last.exception)
    /\ last.exception.name = Str("")
    /\ last.exception.message = Str("")
    /\ last.response.body["error"] = Str("InternalServerError")

\* C12: a thrown value of an unrecognized type (no Error) is answered 500
\* with error "UnknownError" and message "Internal server error".
C12_UnknownError ==
    (Answered /\ ~InstanceOf(last.exception, "Error")) =>
        /\ last.response.status = 500
        /\ last.response.body["statusCode"] = Num(500)
        /\ last.response.body["error"] = Str("UnknownError")
        /\ last.response.body["message"] = Str("Internal server error")

\* a thrown object with a message of its own, which the envelope ignores
C12_Witness ==
    /\ Answered
    /\ ~InstanceOf(last.exception, "Error")
    /\ last.exception.message = Str("boom")
    /\ last.response.body["error"] = Str("UnknownError")

\* C13: the envelope has a stack only in development mode and only when the
\* failure carries one; outside development mode, and for a failure without
\* a stack, the envelope has no stack.
C13_StackOnlyInDevelopment ==
    (Answered /\ last.exception # NoException) =>
        /\ "stack" \in DOMAIN last.response.body =>
                /\ config.dev
                /\ ~IsUndef(last.exception.stack)
                /\ last.response.body["stack"] = last.exception.stack
        /\ ~config.dev => "stack" \notin DOMAIN last.response.body
        /\ IsUndef(last.exception.stack) => "stack" \notin DOMAIN last.response.body

\* in development mode, an Error with a stack: the envelope has it
C13_Witness ==
    /\ Answered
    /\ config.dev
    /\ GenericFault(last.exception)
    /\ "stack" \in DOMAIN last.response.body
    /\ IsText(last.response.body["stack"])

InitFilterPair ==
    /\ \E dev \in BOOLEAN, first \in Throwables :
         \E second \in {e \in Throwables : e.classes = first.classes} :
            /\ config = Config(60000, 1, dev, [r \in {"/items/:id"} |-> NoDecorator],
                               {Str("10.0.0.1")}, {1, 2})
            /\ reqs = [s \in 1..MaxInFlight |->
                   IF s \in {1, 2}
                   THEN [Process(Request(Str("10.0.0.1"), Undef, Str("/items/:id"),
                                         "/items/7", "GET"), "thrown")
                           EXCEPT !.exception = IF s = 1 THEN first ELSE second]
                   ELSE Idle]
    /\ now = 0
    /\ storage = <<>>
    /\ journal = <<>>
    /\ last = NoLast
    /\ left = 0

NextFilterPair ==
    \/ \E slot \in config.slots : Catch(slot)
    \/ Tick

SpecFilterPair == InitFilterPair /\ [][NextFilterPair]_vars

\* two failures of the same kind that differ at most in their stack and, for
\* a QueryFailedError, in the text of the database error
SameButInternals(e1, e2) ==
    /\ e1.classes = e2.classes
    /\ e1.name = e2.name
    /\ e1.status = e2.status
    /\ e1.response = e2.response
    /\ InstanceOf(e1, "QueryFailedError") \/ e1.message = e2.message

WithoutTimestamp(body) == [k \in DOMAIN body \ {"timestamp"} |-> body[k]]

\* C14: outside development mode, two failures of the same kind that differ
\* only in their stack trace or in their raw database error text are
\* answered with the same status and with envelopes that are identical
\* apart from the timestamp.
C14_InternalsNotExposed ==
    [][(/\ Answered
        /\ Answered'
        /\ ~config.dev
        /\ SameButInternals(last.exception, last'.exception))
            => /\ last.response.status = last'.response.status
               /\ WithoutTimestamp(last.response.body)
                    = WithoutTimestamp(last'.response.body)]_vars

\* outside development mode a database failure was answered, and a second
\* one with another error text and another stack is about to be
C14_Witness ==
    /\ Answered
    /\ ~config.dev
    /\ InstanceOf(last.exception, "QueryFailedError")
    /\ \E slot \in config.slots :
          /\ reqs[slot].pc = "thrown"
          /\ SameButInternals(last.exception, reqs[slot].exception)
          /\ reqs[slot].exception.message # last.exception.message
          /\ reqs[slot].exception.stack # last.exception.stack
          /\ ~IsUndef(reqs[slot].exception.stack)
          /\ now > 0

(***************************************************************************)
(* ParseDatePipe.                                                          *)
(***************************************************************************)
\* the year, month and day a text spells as YYYY-MM-DD; none for a text
\* that has no date syntax
DateFields(text) ==
    CASE text = "2024-01-15" -> <<2024, 1, 15>>
      [] text = "2024-02-30" -> <<2024, 2, 30>>
      [] text = "2024-13-45" -> <<2024, 13, 45>>
      [] OTHER -> <<>>

\* the day number (days since 1970-01-01) of a year, a month and a day; a
\* day beyond the end of the month counts on into the next month
DayNumber(y, m, d) ==
    LET yy == IF m <= 2 THEN y - 1 ELSE y
        era == yy \div 400
        yoe == yy - era * 400
        doy == (153 * (IF m > 2 THEN m - 3 ELSE m + 9) + 2) \div 5 + d - 1
        doe == yoe * 365 + yoe \div 4 - yoe \div 100 + doy
    IN era * 146097 + doe - 719468

NaN == [nan |-> TRUE]
\* a Date with this time value (counted in days)
DateValue(time) == [time |-> time]

\* new Date(value) for a string: the time value is NaN unless the text is a
\* date with a month 1..12 and a day 1..31
NewDate(text) ==
    LET f == DateFields(text)
    IN IF f = <<>> THEN DateValue(NaN)
       ELSE IF f[2] \notin 1..12 \/ f[3] \notin 1..31 THEN DateValue(NaN)
       ELSE DateValue(Num(DayNumber(f[1], f[2], f[3])))

ParseDatePipeLenient(value, optional, data) ==
    IF Falsy(value)
    THEN IF optional THEN [returned |-> Undef]
         ELSE [thrown |-> BadRequestException(
                 Str("Validation failed for " \o OrElse(data, Str("parameter")).str
                        \o ". Expected a valid date string."))]
    ELSE [returned |-> NewDate(value.str)]
\* ParseDatePipe.transform(value, metadata) of a pipe constructed with
\* {optional}; data is metadata.data
ParseDatePipe(value, optional, data) ==
    IF Falsy(value)
    THEN IF optional THEN [returned |-> Undef]
         ELSE [thrown |-> BadRequestException(
                 Str("Validation failed for " \o OrElse(data, Str("parameter")).str
                        \o ". Expected a valid date string."))]
    ELSE IF NewDate(value.str).time = NaN
    THEN [thrown |-> BadRequestException(
                 Str("Validation failed for " \o OrElse(data, Str("parameter")).str
                        \o ". \"" \o value.str \o "\" is not a valid date."))]
    ELSE [returned |-> NewDate(value.str)]

\* the pipe of a route parameter runs on its value
ParseDate(slot) ==
    LET p == reqs[slot]
        out == ParseDatePipe(p.input.value, p.input.optional, p.input.data)
    IN /\ p.pc = "dates"
       /\ reqs' = [reqs EXCEPT ![slot] =
             IF "thrown" \in DOMAIN out
             THEN [p EXCEPT !.pc = "failing", !.exception = out.thrown]
             ELSE [p EXCEPT !.pc = "handler", !.data = out.returned]]
       /\ UNCHANGED <<config, now, storage, last, left, journal>>

\* the values a date parameter can have: none, '', texts with and without
\* date syntax
DateValues ==
    {Undef, Str(""), Str("not-a-date"), Str("2024-13-45"), Str("2024-01-15"),
     Str("2024-02-30")}

\* the pipe applied to the same or to different values, twice
InitDate ==
    /\ \E first, second \in DateValues, o1, o2 \in BOOLEAN, d \in {Undef, Str("date")} :
         reqs = [s \in 1..MaxInFlight |->
            IF s \in {1, 2}
            THEN [Process(Request(Str("10.0.0.1"), Undef, Str("/examples/dates/range"),
                                  "/examples/dates/range", "GET"), "dates")
                    EXCEPT !.input = [value |-> IF s = 1 THEN first ELSE second,
                                      optional |-> IF s = 1 THEN o1 ELSE o2,
                                      data |-> d],
                           !.logs = <<LoggerRecord("start", "log", 0,
                                                   Str("/examples/dates/range"))>>]
            ELSE Idle]
    /\ config = Config(60000, 1, FALSE, [r \in {"/examples/dates/range"} |-> Moderate],
                       {Str("10.0.0.1")}, {1, 2})
    /\ now = 0
    /\ storage = <<>>
    /\ journal = <<>>
    /\ last = NoLast
    /\ left = 0

NextDate == \E slot \in config.slots : ParseDate(slot)

SpecDate == InitDate /\ [][NextDate]_vars

\* the pipe has run on the parameter of this slot
Parsed(slot) == reqs[slot].pc \in {"handler", "failing"} /\ "value" \in DOMAIN reqs[slot].input

\* what the pipe gave: the value returned, or the exception thrown
Outcome(slot) ==
    IF reqs[slot].pc = "handler" THEN [returned |-> reqs[slot].data]
    ELSE [thrown |-> reqs[slot].exception]

\* C16: optional-date parsing is deterministic: the same value gives the
\* same outcome each time; in optional mode an absent or empty value gives
\* undefined and never fails; a non-empty value that is no date is
\* rejected with 400, in optional mode as well; a value that is a date
\* gives that date.
C16_OptionalDate ==
    \A s1 \in config.slots : Parsed(s1) =>
        LET in == reqs[s1].input
        IN /\ \A s2 \in config.slots :
                (Parsed(s2) /\ reqs[s2].input = in) => Outcome(s1) = Outcome(s2)
           /\ (in.optional /\ (IsUndef(in.value) \/ in.value = Str("")))
                => Outcome(s1) = [returned |-> Undef]
           /\ (IsStr(in.value) /\ in.value # Str("") /\ NewDate(in.value.str).time = NaN)
                => /\ reqs[s1].pc = "failing"
                   /\ reqs[s1].exception.status = 400
                   /\ InstanceOf(reqs[s1].exception, "BadRequestException")
           /\ (IsStr(in.value) /\ in.value # Str("") /\ NewDate(in.value.str).time # NaN)
                => Outcome(s1) = [returned |-> NewDate(in.value.str)]

\* the optional pipe ran twice on '' and gave undefined both times
C16_Witness ==
    /\ Parsed(1) /\ Parsed(2)
    /\ reqs[1].input.optional /\ reqs[2].input.optional
    /\ reqs[1].input.value = Str("") /\ reqs[2].input.value = Str("")
    /\ Outcome(1) = [returned |-> Undef] /\ Outcome(2) = [returned |-> Undef]

(***************************************************************************)
(* The route GET examples/dates/validate of DateExampleController.         *)
(***************************************************************************)
\* request.query.date of a request with this url
QueryDate(url) ==
    CASE url = "/examples/dates/validate?date=not-a-date" -> Str("not-a-date")
      [] url = "/examples/dates/validate?date=2024-01-15" -> Str("2024-01-15")
      [] OTHER -> Undef

\* a request whose method and path match no route handler: the router
\* throws NotFoundException(`Cannot ${method} ${url}`), which goes to the
\* filter; no guard, interceptor or pipe runs
ArriveUnrouted(slot, ip, method, url) ==
    /\ left > 0
    /\ reqs[slot] = Idle
    /\ \A s \in config.slots : s < slot => reqs[s] # Idle
    /\ reqs' = [reqs EXCEPT ![slot] =
          [Process(Request(ip, Undef, Undef, url, method), "thrown")
             EXCEPT !.exception =
                HttpException("NotFoundException",
                    Obj([message |-> Str("Cannot " \o method \o " " \o url),
                         error |-> Str("Not Found"),
                         statusCode |-> Num(404)]), 404)]]
    /\ left' = left - 1
    /\ UNCHANGED <<config, now, storage, last, journal>>

\* @Query('date', ParseDatePipe): the parameter's value is taken from the
\* query and handed to the pipe
BindQuery(slot) ==
    LET p == reqs[slot]
    IN /\ p.pc = "pipes"
       /\ reqs' = [reqs EXCEPT ![slot] =
             [p EXCEPT !.pc = "dates",
                       !.input = [value |-> QueryDate(p.req.url), optional |-> FALSE,
                                  data |-> Str("date")]]]
       /\ UNCHANGED <<config, now, storage, last, left, journal>>

\* validateDate(date): the handler returns its report on the date
ValidateDate(slot) ==
    LET p == reqs[slot]
    IN /\ p.pc = "handler"
       /\ reqs' = [reqs EXCEPT ![slot] =
             [p EXCEPT !.pc = "emitted",
                       !.data = Obj([message |-> Str("Date validation completed"),
                                     data |-> Obj([inputDate |-> p.data.time])])]]
       /\ UNCHANGED <<config, now, storage, last, left, journal>>

InitDates ==
    /\ \E dev \in BOOLEAN :
         config = Config(60000, 1, dev, [r \in {"/examples/dates/validate"} |-> Lenient],
                         {Str("10.0.0.1")}, {1})
    /\ now = 0
    /\ storage = <<>>
    /\ journal = <<>>
    /\ reqs = [s \in 1..MaxInFlight |-> Idle]
    /\ last = NoLast
    /\ left = MaxArrivals

NextDates ==
    \/ \E slot \in config.slots, ip \in config.clients, route \in DOMAIN config.routes :
            Arrive(slot, ip, route)
    \/ \E slot \in config.slots, ip \in config.clients, route \in DOMAIN config.routes :
            \E url \in Urls(route) : ArriveUnrouted(slot, ip, "POST", url)
    \/ \E slot \in config.slots : GuardTracker(slot)
    \/ \E slot \in config.slots : GuardIncrement(slot)
    \/ \E slot \in config.slots : InterceptorEnter(slot)
    \/ \E slot \in config.slots : BindQuery(slot)
    \/ \E slot \in config.slots : ParseDate(slot)
    \/ \E slot \in config.slots : ValidateDate(slot)
    \/ \E slot \in config.slots : TapNext(slot)
    \/ \E slot \in config.slots : TapError(slot)
    \/ \E slot \in config.slots : Reply(slot)
    \/ \E slot \in config.slots : Catch(slot)
    \/ Quiet /\ Tick

SpecDates == InitDates /\ [][NextDates]_vars

\* the messages of ParseDatePipe for the parameter date
DateMessages ==
    {Str("Validation failed for date. Expected a valid date string.")}
        \cup {Str("Validation failed for date. \"" \o v \o "\" is not a valid date.") :
                v \in {"not-a-date"}}

PassedWithin(hits, i) ==
    {j \in DOMAIN hits :
        /\ hits[j].pass
        /\ hits[j].time >= hits[i].time
        /\ hits[j].time - hits[i].time <= hits[i].ttl}

\* C18: for a bucket with limit N and window W, the number of requests that
\* pass in any time interval of length W never exceeds 2*N (a burst across
\* the boundary of two windows can exceed N).
C18_AtMostTwiceTheLimit ==
    \A key \in DOMAIN journal :
        \A i \in DOMAIN journal[key] :
            Cardinality(PassedWithin(journal[key], i)) <= 2 * journal[key][i].limit

\* a burst across a window boundary: more than N requests passed within an
\* interval of length W, in two windows
C18_Witness ==
    \E key \in DOMAIN journal :
        \E i \in DOMAIN journal[key] :
            /\ Cardinality(PassedWithin(journal[key], i)) > journal[key][i].limit
            /\ \E j \in PassedWithin(journal[key], i) :
                  WindowStarts(journal[key], journal[key][i].ttl)[j]
                    # WindowStarts(journal[key], journal[key][i].ttl)[i]

(***************************************************************************)
(* HealthController: the probes, and the database they report on.          *)
(***************************************************************************)
\* the database becomes unreachable, or reachable again, between requests
DatabaseFlip ==
    /\ Quiet
    /\ config' = [config EXCEPT !.database = ~@]
    /\ UNCHANGED <<now, storage, reqs, last, left, journal>>

\* a route without parameters: no pipe runs, the handler is called
AtHandler(slot, route) ==
    /\ reqs[slot].pc = "pipes"
    /\ reqs[slot].req.routePath = Str(route)

\* ready(): { status: 'ready', timestamp }
Ready(slot) ==
    /\ AtHandler(slot, "/health/ready")
    /\ reqs' = [reqs EXCEPT ![slot] =
          [@ EXCEPT !.pc = "emitted",
                    !.data = Obj([status |-> Str("ready"), timestamp |-> Num(now)])]]
    /\ UNCHANGED <<config, now, storage, last, left, journal>>

\* live(): { status: 'live', timestamp }
Live(slot) ==
    /\ AtHandler(slot, "/health/live")
    /\ reqs' = [reqs EXCEPT ![slot] =
          [@ EXCEPT !.pc = "emitted",
                    !.data = Obj([status |-> Str("live"), timestamp |-> Num(now)])]]
    /\ UNCHANGED <<config, now, storage, last, left, journal>>

\* check(): health.check([() => this.db.pingCheck('database'), ...]) gives
\* status 'ok' when every indicator is up and throws
\* ServiceUnavailableException otherwise
Check(slot) ==
    /\ AtHandler(slot, "/health")
    /\ reqs' = [reqs EXCEPT ![slot] =
          IF config.database
          THEN [@ EXCEPT !.pc = "emitted",
                         !.data = Obj([status |-> Str("ok"),
                                       database |-> Str("up")])]
          ELSE [@ EXCEPT !.pc = "failing",
                         !.exception =
                            HttpException("ServiceUnavailableException",
                                Obj([status |-> Str("error"),
                                     database |-> Str("down")]), 503)]]
    /\ UNCHANGED <<config, now, storage, last, left, journal>>

InitHealth ==
    /\ \E database \in BOOLEAN :
         config = [Config(60000, 1, FALSE,
                          [r \in {"/health", "/health/ready", "/health/live"} |-> Lenient],
                          {Str("10.0.0.1")}, {1}) EXCEPT !.database = database]
    /\ now = 0
    /\ storage = <<>>
    /\ journal = <<>>
    /\ reqs = [s \in 1..MaxInFlight |-> Idle]
    /\ last = NoLast
    /\ left = MaxArrivals

NextHealth ==
    \/ \E slot \in config.slots, ip \in config.clients, route \in DOMAIN config.routes :
            Arrive(slot, ip, route)
    \/ \E slot \in config.slots : GuardTracker(slot)
    \/ \E slot \in config.slots : GuardIncrement(slot)
    \/ \E slot \in config.slots : InterceptorEnter(slot)
    \/ \E slot \in config.slots : Ready(slot)
    \/ \E slot \in config.slots : Live(slot)
    \/ \E slot \in config.slots : Check(slot)
    \/ \E slot \in config.slots : TapNext(slot)
    \/ \E slot \in config.slots : TapError(slot)
    \/ \E slot \in config.slots : Reply(slot)
    \/ \E slot \in config.slots : Catch(slot)
    \/ DatabaseFlip
    \/ Quiet /\ Tick

SpecHealth == InitHealth /\ [][NextHealth]_vars

\* C19: GET /health/ready reports status "ready" only while the database
\* is reachable (the liveness probe reports on the server alone).
C19_ReadyOnlyWithDatabase ==
    \A slot \in config.slots :
        (/\ reqs[slot].pc \in {"emitted", "replying"}
         /\ reqs[slot].req.routePath = Str("/health/ready")
         /\ Get(reqs[slot].data, "status") = Str("ready"))
            => config.database

(***************************************************************************)
(* The order of the tiers.                                                 *)
(***************************************************************************)
TierNames == <<"short", "medium", "long">>

\* the hits on the bucket of a tier name for the route and client of a request
HitsOn(request, name) ==
    LET key == generateKey(request, getTracker(request), name)
    IN IF key \in DOMAIN journal THEN journal[key] ELSE <<>>

Passes(hits) == Cardinality({i \in DOMAIN hits : hits[i].pass})

\* C20: the tiers are evaluated in the order short, medium, long; the first
\* tier to reject ends the evaluation with the rejection (429), and no
\* later tier is evaluated for that request: a tier is evaluated for the
\* requests that passed the tier before it, and for no other.
C20_FirstRejectionStops ==
    GuardDone =>
        /\ Len(last.trace) \in 1..3
        /\ \A i \in DOMAIN last.trace :
              /\ last.trace[i].name = TierNames[i]
              /\ i < Len(last.trace) => last.trace[i].pass
        /\ ~last.trace[Len(last.trace)].pass =>
                ~last.admitted /\ last.response.status = 429
        /\ Len(last.trace) < 3 => ~last.trace[Len(last.trace)].pass
        /\ Quiet => \A i \in 2..3 :
              Len(HitsOn(last.req, TierNames[i]))
                = Passes(HitsOn(last.req, TierNames[i - 1]))

\* the short tier refused a request, and the medium tier has seen fewer
\* requests than the short tier
C20_Witness ==
    /\ Rejected
    /\ Quiet
    /\ Len(last.trace) = 1
    /\ Len(HitsOn(last.req, "medium")) > 0
    /\ Len(HitsOn(last.req, "medium")) < Len(HitsOn(last.req, "short"))

(***************************************************************************)
(* What a refused request costs.                                           *)
(***************************************************************************)
\* the request that completed last was answered 429
Refused == GuardDone /\ last.response.status = TOO_MANY_REQUESTS

\* C21 as stated: a request that a tier refused has still incremented the
\* counter of every tier, short, medium and long.
C21_EveryTierIncremented ==
    Refused => {e.name : e \in Entries(last.trace)} = {"short", "medium", "long"}

\* C21: a request that a tier refused has incremented the counter of that
\* tier and of every tier before it (the tiers that let it pass: there it
\* still costs quota), and of no tier after it.
C21_RejectionCostsEarlierTiers ==
    Refused =>
        LET k == Len(last.trace)
        IN /\ \A i \in 1..k :
                LET e == last.trace[i]
                IN /\ e.name = TierNames[i]
                   /\ e.idx \in DOMAIN journal[e.key]
                   /\ journal[e.key][e.idx].pass = (i < k)
                   /\ e.totalHits = EntryOrdinal(e)
           /\ Quiet => \A i \in (k + 1)..3 :
                 Len(HitsOn(last.req, TierNames[i]))
                    = Passes(HitsOn(last.req, TierNames[i - 1]))

\* the medium tier refused a request that the short tier had counted and
\* let pass, and the long tier has not counted it
C21_Witness ==
    /\ Rejected
    /\ Quiet
    /\ Len(last.trace) = 2
    /\ last.trace[1].pass
    /\ journal[last.trace[1].key][last.trace[1].idx].time = now
    /\ Len(HitsOn(last.req, "long")) < Len(HitsOn(last.req, "medium"))

(***************************************************************************)
(* One increment of a bucket for each request.                             *)
(***************************************************************************)
\* the requests whose passage through the guard is on record
Guarded ==
    {reqs[slot] : slot \in {x \in config.slots : reqs[x] # Idle}}
        \cup (IF GuardDone THEN {last} ELSE {})

\* C22: each request has incremented any bucket at most once (the buckets a
\* request hit are pairwise different, and a bucket holds no more hits than
\* requests have arrived), and the count of a bucket is over the limit only
\* when the request that brought it there was refused.
C22_NoDoubleCounting ==
    /\ \A p \in Guarded :
          \A i, j \in DOMAIN p.trace : p.trace[i].key = p.trace[j].key => i = j
    /\ \A key \in DOMAIN journal :
          LET hits == journal[key]
              n == Len(hits)
          IN /\ n <= MaxConcurrent - left
             /\ \A i \in 1..n :
                   OrdinalInWindow(hits, i, hits[i].ttl) > hits[i].limit
                        => ~hits[i].pass
             /\ storage[key].totalHits > hits[n].limit => ~hits[n].pass
    /\ GuardDone =>
          \A e \in Entries(last.trace) :
              e.totalHits > e.limit => ~last.admitted /\ last.response.status = 429

\* every request that arrived is counted once in the short bucket, whose
\* count is over the limit, and the request that brought it there was refused
C22_Witness ==
    /\ Rejected
    /\ Quiet
    /\ left = 0
    /\ last.trace[1].totalHits > last.trace[1].limit
    /\ Len(journal[last.trace[1].key]) = MaxConcurrent
    /\ storage[last.trace[1].key].totalHits = last.trace[1].totalHits

(***************************************************************************)
(* The buckets of several clients on several routes, one request at a      *)
(* time within one window.                                                 *)
(***************************************************************************)
InitKeys ==
    /\ config = Config(60000, 2, FALSE,
                       [r \in {"/users/:id", "/users"} |->
                            IF r = "/users" THEN Strict ELSE NoDecorator],
                       {Str("10.0.0.1"), Str("::1"), Undef}, {1})
    /\ now = 0
    /\ storage = <<>>
    /\ journal = <<>>
    /\ reqs = [s \in 1..MaxInFlight |-> Idle]
    /\ last = NoLast
    /\ left = MaxConcurrent

SpecKeys == InitKeys /\ [][NextConcurrent]_vars

\* C23: two requests are counted in the same bucket if and only if the tier
\* name, the client address and the route pattern are the same; requests of
\* one route pattern that differ in their literal path or query string are
\* counted together, the later one after the earlier one.
C23_BucketIdentity ==
    \A p, q \in Guarded :
        \A i \in DOMAIN p.trace, j \in DOMAIN q.trace :
            /\ p.trace[i].key = q.trace[j].key
                  <=> /\ p.trace[i].name = q.trace[j].name
                      /\ getTracker(p.req) = getTracker(q.req)
                      /\ p.req.routePath = q.req.routePath
            /\ (p.trace[i].key = q.trace[j].key /\ p = last /\ q # last)
                  => /\ q.trace[j].idx > p.trace[i].idx
                     /\ q.trace[j].totalHits > p.trace[i].totalHits

\* two requests of one client to one route pattern with different literal
\* paths, the second counted as the second hit of the bucket of the first;
\* an earlier request to another route is in a bucket of its own
C23_Witness ==
    /\ GuardDone
    /\ reqs[1] # Idle
    /\ reqs[1].trace # <<>>
    /\ reqs[1].req.url # last.req.url
    /\ reqs[1].req.routePath = Str("/users/:id")
    /\ reqs[1].req.ip = Str("::1")
    /\ reqs[1].trace[1].key = last.trace[1].key
    /\ reqs[1].trace[1].totalHits = 2
    /\ "short:::1:/users" \in DOMAIN journal

(***************************************************************************)
(* What the interceptor sees of the guard and of the pipe.                 *)
(***************************************************************************)
Kinds(logs) == [i \in DOMAIN logs |-> logs[i].kind]

\* the guard refused the request that was answered last
RefusedByGuard ==
    Answered /\ last.trace # <<>> /\ ~last.trace[Len(last.trace)].pass

\* the validation pipe refused it
RefusedByPipe == Answered /\ last.verrors # <<>>

C25_ObservesOnly ==
    [][\A slot \in config.slots :
          /\ reqs[slot].pc = "emitted" =>
                /\ reqs'[slot].pc \in {"emitted", "replying"}
                /\ reqs'[slot].data = reqs[slot].data
                /\ reqs'[slot].exception = NoException
          /\ reqs[slot].pc = "failing" =>
                /\ reqs'[slot].pc \in {"failing", "thrown"}
                /\ reqs'[slot].exception = reqs[slot].exception]_vars

(***************************************************************************)
(* A connection closed while its request is in flight.                     *)
(***************************************************************************)
\* C26: a request whose connection was closed after its start record was
\* logged, and before its result was delivered, still gets its end record,
\* and that record is one of the failure path.
C26_EndRecordOnDisconnect ==
    (Answered /\ last.closed) =>
        /\ Kinds(last.logs) = <<"start", "end">>
        /\ last.logs[2].level = "error"

(***************************************************************************)
(* The order of the stages.                                                *)
(***************************************************************************)
\* every tier let the request pass
AdmittedByGuard(p) ==
    /\ [i \in DOMAIN p.trace |-> p.trace[i].name] = TierNames
    /\ \A i \in DOMAIN p.trace : p.trace[i].pass

\* C27: the stages run in the order rate limiter, validator, handler, end
\* record: a request is with the validator only once every tier admitted
\* it, with the handler only once the validator accepted its input, and
\* its end record exists only once the handler is done; the filter writes
\* the response if and only if a stage raised.
C27_StageOrder ==
    /\ \A slot \in config.slots :
          LET p == reqs[slot]
          IN p # Idle =>
              /\ p.pc \in {"tracker", "increment"} =>
                    p.logs = <<>> /\ p.input = NoInput /\ p.exception = NoException
              /\ p.pc \in {"pipes", "factory", "handler", "emitted", "failing", "replying"} =>
                    AdmittedByGuard(p) /\ Kinds(p.logs)[1] = "start"
              /\ p.pc \in {"pipes", "factory"} =>
                    IsUndef(p.data) /\ p.exception = NoException
              /\ p.pc \in {"handler", "emitted", "replying"} =>
                    p.input # NoInput /\ Validate(p.input) = <<>> /\ p.verrors = <<>>
              /\ "end" \in {p.logs[i].kind : i \in DOMAIN p.logs} =>
                    p.pc \in {"replying", "thrown"}
              /\ p.pc = "thrown" <=> p.exception # NoException /\ p.pc # "failing"
    /\ Answered =>
          /\ last.serverLog # <<>> <=> last.exception # NoException
          /\ last.exception # NoException =>
                last.response.status = FilterStatus(last.exception)
          /\ last.exception = NoException =>
                /\ last.response.status = OK
                /\ AdmittedByGuard(last)
                /\ last.input # NoInput /\ Validate(last.input) = <<>>

\* a request that every tier admitted and the validator accepted is with
\* the handler, after a request whose failure the filter answered
C27_Witness ==
    /\ Answered
    /\ last.exception # NoException
    /\ last.serverLog # <<>>
    /\ \E slot \in config.slots :
          /\ reqs[slot] # Idle
          /\ reqs[slot].pc = "handler"
          /\ AdmittedByGuard(reqs[slot])
          /\ Kinds(reqs[slot].logs) = <<"start">>

(***************************************************************************)
(* The end record of the failure path.                                     *)
(***************************************************************************)
\* C28: the end record of a failure carries the elapsed time, the message
\* of the failure and, no status having been set on the response before
\* the failure passed the interceptor, the status code 500.
C28_FailureRecordDefaults500 ==
    Answered =>
        \A i \in DOMAIN last.logs :
            (last.logs[i].kind = "end" /\ last.logs[i].level = "error") =>
                /\ last.logs[i].responseTime >= 0
                /\ last.logs[i].note = last.exception.message
                /\ last.logs[i].statusCode = Num(INTERNAL_SERVER_ERROR)

(***************************************************************************)
(* The order of the branches of the filter.                                *)
(***************************************************************************)
\* the branch that handles a thrown value: the first of the four tests, in
\* the order of the source, that the value passes
BranchOf(exception) ==
    IF InstanceOf(exception, "HttpException") THEN "declared"
    ELSE IF InstanceOf(exception, "QueryFailedError") THEN "data-layer"
    ELSE IF InstanceOf(exception, "Error") THEN "generic"
    ELSE "unknown"

\* the branches whose own log line is in the server-side log of a response
LoggedBranches(log) ==
    {b \in {"data-layer", "generic", "unknown"} :
        \E i \in DOMAIN log :
            IsText(log[i].msg) /\ log[i].msg.text[1] =
                (CASE b = "data-layer" -> "Database error: "
                   [] b = "generic" -> "Unexpected error: "
                   [] b = "unknown" -> "Unknown error occurred")}

\* C29: every thrown value is handled by exactly one branch, the first in
\* the order declared failure, data-layer failure, generic fault, anything
\* else that it matches; status, message and error are assigned when the
\* envelope is built; a data-layer failure, although an Error, is answered
\* by its own branch (400, "QueryFailedError") and never by the generic one.
C29_BranchesExhaustiveOrdered ==
    Answered =>
        LET e == last.exception
            body == last.response.body
            branch == BranchOf(e)
        IN /\ LoggedBranches(last.serverLog) = {branch} \ {"declared"}
           /\ Len(last.serverLog) = IF branch = "declared" THEN 1 ELSE 2
           /\ {"statusCode", "message", "error"} \subseteq DOMAIN body
           /\ body["statusCode"] = Num(last.response.status)
           /\ branch = "declared" => last.response.status = e.status
           /\ branch = "data-layer" =>
                 /\ last.response.status = BAD_REQUEST
                 /\ body["error"] = Str("QueryFailedError")
           /\ branch \in {"generic", "unknown"} =>
                 last.response.status = INTERNAL_SERVER_ERROR
           /\ branch = "unknown" => body["error"] = Str("UnknownError")
           /\ (InstanceOf(e, "QueryFailedError") /\ InstanceOf(e, "Error")) =>
                 /\ last.response.status # INTERNAL_SERVER_ERROR
                 /\ "generic" \notin LoggedBranches(last.serverLog)

\* a data-layer failure, which is an Error too, answered 400 by its own
\* branch with the log line of that branch only
C29_Witness ==
    /\ Answered
    /\ InstanceOf(last.exception, "QueryFailedError")
    /\ InstanceOf(last.exception, "Error")
    /\ LoggedBranches(last.serverLog) = {"data-layer"}
    /\ last.response.status = BAD_REQUEST
    /\ last.response.body["error"] = Str("QueryFailedError")
    /\ last.response.body["message"] = Str("Database query failed")

(***************************************************************************)
(* runSeeds: the seed script, run as a process of its own.  config is what *)
(* the environment decides (whether AppDataSource is initialized already,  *)
(* and how initialize, the seed statements and destroy turn out), reqs[1]  *)
(* is the process and journal is what it logged.                           *)
(***************************************************************************)
Succeeds == "ok"
InitializeOutcomes == {Succeeds, "connect ECONNREFUSED", "password authentication failed"}
SeedOutcomes == {Succeeds, "duplicate key value violates unique constraint",
                 "relation users does not exist"}
DestroyOutcomes == {Succeeds, "Connection terminated unexpectedly"}

SeedsProcess(isInitialized) ==
    [pc |-> "try", isInitialized |-> isInitialized, error |-> Undef,
     exitCode |-> Undef]

SeedsStep(p, log) ==
    /\ reqs' = [reqs EXCEPT ![1] = p]
    /\ journal' = journal \o log
    /\ UNCHANGED <<config, now, storage, last, left>>

\* try: the first log line and `if (!AppDataSource.isInitialized)`
RunSeedsTry ==
    LET p == reqs[1]
    IN /\ p.pc = "try"
       /\ SeedsStep([p EXCEPT !.pc = IF p.isInitialized THEN "seed" ELSE "initialize"],
                    <<"Starting database seeding...">>)

\* await AppDataSource.initialize()
RunSeedsInitialize ==
    LET p == reqs[1]
    IN /\ p.pc = "initialize"
       /\ IF config.initialize = Succeeds
          THEN SeedsStep([p EXCEPT !.pc = "seed", !.isInitialized = TRUE],
                         <<"Database connection established">>)
          ELSE SeedsStep([p EXCEPT !.pc = "catch", !.error = Str(config.initialize)],
                         <<>>)

\* the seed statements, at the place marked for them, and the last log line
\* of the try block
RunSeedsSeed ==
    LET p == reqs[1]
    IN /\ p.pc = "seed"
       /\ IF config.seed = Succeeds
          THEN SeedsStep([p EXCEPT !.pc = "finally"],
                         <<"Database seeding completed successfully!">>)
          ELSE SeedsStep([p EXCEPT !.pc = "catch", !.error = Str(config.seed)], <<>>)

\* catch: the error is logged and process.exit(1) ends the process at once;
\* the finally block is not run
RunSeedsCatch ==
    LET p == reqs[1]
    IN /\ p.pc = "catch"
       /\ SeedsStep([p EXCEPT !.pc = "exited", !.exitCode = Num(1)],
                    <<"Database seeding failed:">>)

\* finally, reached from the end of the try block: destroy if initialized
RunSeedsFinally ==
    LET p == reqs[1]
    IN /\ p.pc = "finally"
       /\ IF ~p.isInitialized
          THEN SeedsStep([p EXCEPT !.pc = "returned"], <<>>)
          ELSE IF config.destroy = Succeeds
          THEN SeedsStep([p EXCEPT !.pc = "returned", !.isInitialized = FALSE],
                         <<"Database connection closed">>)
          ELSE SeedsStep([p EXCEPT !.pc = "rejected", !.error = Str(config.destroy)],
                         <<>>)

\* runSeeds().catch(...): what runSeeds rejects with is logged, and the
\* process exits
RunSeedsRejected ==
    LET p == reqs[1]
    IN /\ p.pc = "rejected"
       /\ SeedsStep([p EXCEPT !.pc = "exited", !.exitCode = Num(1)],
                    <<"Unexpected error during seeding:">>)

InitSeeds ==
    /\ \E already \in BOOLEAN, initialize \in InitializeOutcomes,
          seed \in SeedOutcomes, destroy \in DestroyOutcomes :
         /\ config = [initialize |-> initialize, seed |-> seed, destroy |-> destroy]
         /\ reqs = <<SeedsProcess(already)>>
    /\ now = 0
    /\ storage = <<>>
    /\ journal = <<>>
    /\ last = NoLast
    /\ left = 0

NextSeeds ==
    \/ RunSeedsTry
    \/ RunSeedsInitialize
    \/ RunSeedsSeed
    \/ RunSeedsCatch
    \/ RunSeedsFinally
    \/ RunSeedsRejected

SpecSeeds == InitSeeds /\ [][NextSeeds]_vars

\* the process of the seed script has ended
SeedsEnded == reqs[1].pc \in {"returned", "exited"}

====
